---- MODULE Spec2Model ----
\* Build/package runner of UnrealBuildTool: the worker threads of
\* commands.rs (create_build_command, create_package_command), the mpsc
\* channel between a worker and the UI, and the polling and button logic of
\* BuildApp::update in app.rs.
EXTENDS Integers, Sequences, FiniteSets, TLC

\* ---------------------------------------------------------------- bounds
\* Number of invocations (runs) the user may start.
MaxRuns == 2
\* Number of items (lines or read errors) all children together produce.
MaxLines == 3
\* Length of the output fed to the paired workers of DetSpec.
MaxStream == 2

Runs == 1..MaxRuns

\* ------------------------------------------------------- ProgressUpdate
\* commands.rs:17-24.  An f32 fraction is kept as the exact quotient num/den.
Progress(n, d) == [type |-> "Progress", num |-> n, den |-> d, msg |-> ""]
Stage(m) == [type |-> "Stage", num |-> 0, den |-> 1, msg |-> m]
Finished(m) == [type |-> "Finished", num |-> 0, den |-> 1, msg |-> m]

\* ------------------------------------------------------------ the lines
\* A line of child output, by what the recognizers can see in it:
\*   err      the item is Err(_) of reader.lines(), not a line
\*   banners  the indices (in StageTable) of the banners it contains
\*   success  whether it contains "BUILD SUCCESSFUL"
\*   counters the matches of \[([0-9]+)/([0-9]+)\], left to right
\*   percents the matches of (\d+)%, left to right; ascii is FALSE when the
\*            digits are not ASCII digits (\d is Unicode aware), which
\*            parse::<f32>() rejects
Line(b, s, c, p) ==
    [err |-> FALSE, banners |-> b, success |-> s, counters |-> c, percents |-> p]
ReadErr ==
    [err |-> TRUE, banners |-> {}, success |-> FALSE, counters |-> <<>>, percents |-> <<>>]
Ctr(c, t) == [current |-> c, total |-> t]
Pct(n) == [digits |-> n, ascii |-> TRUE]
BadPct(n) == [digits |-> n, ascii |-> FALSE]

NoLine == Line({}, FALSE, <<>>, <<>>)

\* The stage banners of create_package_command in the order of its
\* if / else-if chain, with the label each one sends.
StageTable ==
    << [banner |-> "********** BUILD COMMAND STARTED **********", label |-> "Build started"],
       [banner |-> "********** BUILD COMMAND COMPLETED **********", label |-> "Build completed"],
       [banner |-> "********** COOK COMMAND STARTED **********", label |-> "Cooking..."],
       [banner |-> "********** COOK COMMAND COMPLETED **********", label |-> "Cook completed"],
       [banner |-> "********** STAGE COMMAND STARTED **********", label |-> "Staging..."],
       [banner |-> "********** PACKAGE COMMAND STARTED **********", label |-> "Packaging..."],
       [banner |-> "********** PACKAGE COMMAND COMPLETED **********", label |-> "Package completed"] >>

CookStarted == CHOOSE i \in DOMAIN StageTable : StageTable[i].label = "Cooking..."
BuildStarted == CHOOSE i \in DOMAIN StageTable : StageTable[i].label = "Build started"

\* The lines a child may print (the inputs of the model).
Lines ==
    { NoLine,                                          \* nothing recognizable
      Line({}, TRUE, <<>>, <<>>),                      \* BUILD SUCCESSFUL
      Line({}, FALSE, <<Ctr(1, 4)>>, <<>>),            \* [1/4]
      Line({}, FALSE, <<Ctr(3, 2)>>, <<>>),            \* [3/2]
      Line({}, FALSE, <<Ctr(0, 0), Ctr(1, 2)>>, <<>>), \* [0/0] [1/2]
      Line({}, TRUE, <<Ctr(0, 0)>>, <<>>),             \* [0/0] BUILD SUCCESSFUL
      Line({}, TRUE, <<Ctr(1, 4)>>, <<Pct(67)>>),      \* [1/4] 67% BUILD SUCCESSFUL
      Line({}, FALSE, <<>>, <<Pct(67)>>),              \* 67%
      Line({}, FALSE, <<>>, <<Pct(150)>>),             \* 150%
      Line({}, FALSE, <<>>, <<BadPct(3), Pct(67)>>),   \* non-ASCII digit %, 67%
      Line({CookStarted}, FALSE, <<>>, <<>>),          \* cook banner
      Line({BuildStarted, CookStarted}, TRUE, <<>>, <<Pct(67)>>) }

Items == Lines \cup {ReadErr}

\* --------------------------------------------------------------- state
VARIABLES
    app,              \* "running", or "panicked" once an expect() has failed
    projects,         \* BuildApp.projects: the engine_version of each project
    engine_location,  \* BuildApp.engine_location is Some
    selected_project, \* BuildApp.selected_project: 0 is None, else an index
    build_progress,   \* BuildApp.build_progress: Option<f32>
    progress_message, \* BuildApp.progress_message
    progress_rx,      \* BuildApp.progress_rx: 0 is None, else the run whose Receiver is held
    pc,               \* where update() stands: "draining" (in the poll loop) or "panel"
    finished,         \* the local `finished` of the poll block of update()
    nruns,            \* invocations of create_*_command so far
    kind,             \* per run: "none", "build" or "package"
    worker,           \* per run: "unborn", "spawn_failed", "reading", "done"
    chan,             \* per run: the events queued in the mpsc channel
    rx_alive,         \* per run: the Receiver has not been dropped
    emitted,          \* per run: every event the worker passed to tx.send
    received,         \* per run: every event try_recv returned to the UI
    line_result,      \* the item a worker's loop read most recently (of any run)
    nread,            \* per run: items the worker has read
    stream,           \* the output fed to the paired workers of DetSpec (unused in Spec)
    target_os,        \* the target_os the binary was compiled for
    reveal            \* the file-browser command the step just taken spawned

vars == << app, projects, engine_location, selected_project, build_progress,
           progress_message, progress_rx, pc, finished, nruns, kind, worker,
           chan, rx_alive, emitted, received, line_result, nread, stream,
           target_os, reveal >>

ui_vars == << projects, engine_location, selected_project, build_progress,
              progress_message, progress_rx, finished >>
run_vars == << nruns, kind, worker, chan, rx_alive, emitted, received, line_result,
              nread, stream, target_os >>

\* Option<f32>
None == [some |-> FALSE, num |-> 0, den |-> 1]
Some(n, d) == [some |-> TRUE, num |-> n, den |-> d]

\* progress_message: a fixed text, or "<pct>% complete"
Msg(t) == [text |-> t, pct |-> 0 - 1]
PctMsg(n) == [text |-> "% complete", pct |-> n]

RECURSIVE SumTo(_, _)
SumTo(f, n) == IF n = 0 THEN 0 ELSE f[n] + SumTo(f, n - 1)
TotalRead == SumTo(nread, MaxRuns)

\* ------------------------------------------------------------- workers
\* A faulty build loop body: the two capture groups are taken the wrong way
\* round (total / current).
BuildEvents_Swapped(line) ==
    IF line.success
    THEN << Finished("Build finished") >>
    ELSE IF line.counters # << >>
         THEN LET caps == Head(line.counters) IN
              IF caps.current > 0
              THEN << Progress(caps.total, caps.current) >>
              ELSE << >>
         ELSE << >>

\* A faulty build loop body: the `total > 0.0` guard is missing.
BuildEvents_NoGuard(line) ==
    IF line.success
    THEN << Finished("Build finished") >>
    ELSE IF line.counters # << >>
         THEN LET caps == Head(line.counters) IN
              << Progress(caps.current, caps.total) >>
         ELSE << >>

\* A faulty build loop body: the counter is tested before the success marker.
BuildEvents_CounterFirst(line) ==
    IF line.counters # << >>
    THEN LET caps == Head(line.counters) IN
         IF caps.total > 0
         THEN << Progress(caps.current, caps.total) >>
         ELSE << >>
    ELSE IF line.success
         THEN << Finished("Build finished") >>
         ELSE << >>

\* The body of the build worker's loop for one Ok(line): the events it sends.
BuildEvents(line) ==
    IF line.success
    THEN << Finished("Build finished") >>
    ELSE IF line.counters # << >>
         THEN LET caps == Head(line.counters) IN
              IF caps.total > 0
              THEN << Progress(caps.current, caps.total) >>
              ELSE << >>
         ELSE << >>

\* A faulty banner lookup: the last banner of the table that occurs wins.
FirstBanner_Last(line) ==
    CHOOSE i \in line.banners : \A j \in line.banners : i >= j

\* The first banner of StageTable, in table order, that the line contains.
FirstBanner(line) ==
    CHOOSE i \in line.banners : \A j \in line.banners : i <= j

\* A faulty package loop body: the percentage is sent as it was parsed, not
\* divided by 100.
PackageEvents_Undivided(line) ==
    IF line.banners # {}
    THEN << Stage(StageTable[FirstBanner(line)].label) >>
    ELSE IF line.success
         THEN << Finished("Package finished") >>
         ELSE IF line.percents # << >>
              THEN LET num_str == Head(line.percents) IN
                   IF num_str.ascii
                   THEN << Progress(num_str.digits, 1) >>
                   ELSE << >>
              ELSE << >>

\* A faulty package loop body: digits that do not parse count as zero
\* (parse::<f32>().unwrap_or(0.0)).
PackageEvents_ParseOrZero(line) ==
    IF line.banners # {}
    THEN << Stage(StageTable[FirstBanner(line)].label) >>
    ELSE IF line.success
         THEN << Finished("Package finished") >>
         ELSE IF line.percents # << >>
              THEN LET num_str == Head(line.percents) IN
                   IF num_str.ascii
                   THEN << Progress(num_str.digits, 100) >>
                   ELSE << Progress(0, 100) >>
              ELSE << >>

\* The body of the package worker's loop for one Ok(line): the events it sends.
PackageEvents(line) ==
    IF line.banners # {}
    THEN << Stage(StageTable[FirstBanner(line)].label) >>
    ELSE IF line.success
         THEN << Finished("Package finished") >>
         ELSE IF line.percents # << >>
              THEN LET num_str == Head(line.percents) IN
                   IF num_str.ascii
                   THEN << Progress(num_str.digits, 100) >>
                   ELSE << >>
              ELSE << >>

\* A faulty loop: a line the run's own recognizers do not match is given to
\* the recognizers of the other kind.
LoopEvents_AnyShape(k, item) ==
    IF item.err THEN << >>
    ELSE IF k = "build"
         THEN IF BuildEvents(item) # << >> THEN BuildEvents(item) ELSE PackageEvents(item)
         ELSE IF PackageEvents(item) # << >> THEN PackageEvents(item) ELSE BuildEvents(item)

\* What one iteration of `for line_result in reader.lines()` sends:
\* nothing for Err(_), else the events of the run's kind.
LoopEvents(k, item) ==
    IF item.err THEN << >>
    ELSE IF k = "build" THEN BuildEvents(item) ELSE PackageEvents(item)

\* The targets the crate compiles for: BUILD_SCRIPT and UAT_SCRIPT are
\* defined under #[cfg(target_os = "windows")] and #[cfg(target_os = "macos")]
\* only.
TargetOs == {"windows", "macos"}

\* No file-browser command was spawned.
NoReveal == [program |-> "none", ok |-> FALSE]

\* `let _ = Command::new(program).arg(&staging_directory).spawn();`
\* spawn() returns Ok or Err and the result is discarded.
SpawnReveal(program) == {[program |-> program, ok |-> b] : b \in BOOLEAN}

\* A step of code that spawns no file-browser command.
NoSpawn == reveal' = NoReveal

\* The file-browser commands the package loop body may spawn for one
\* Ok(line): only in the BUILD SUCCESSFUL branch of the else-if chain, and
\* there explorer on Windows, open on macOS, nothing on another target
\* (a branch no target of TargetOs takes).
PackageReveals(line) ==
    IF line.banners # {}
    THEN {NoReveal}
    ELSE IF line.success
         THEN IF target_os = "windows" THEN SpawnReveal("explorer")
              ELSE IF target_os = "macos" THEN SpawnReveal("open")
              ELSE {NoReveal}
         ELSE {NoReveal}

\* A faulty loop: the build worker's success branch opens the file browser
\* too.
LoopReveals_AnyKind(k, item) ==
    IF item.err THEN {NoReveal} ELSE PackageReveals(item)

\* The file-browser commands one iteration of a worker's loop may spawn:
\* the build loop has no such call.
LoopReveals(k, item) ==
    IF item.err THEN {NoReveal}
    ELSE IF k = "build" THEN {NoReveal} ELSE PackageReveals(item)

\* A faulty send: the worker sends nothing once the Receiver is gone.
Send_OnlyWhileHeld(r, evs) ==
    /\ emitted' = [emitted EXCEPT ![r] = IF rx_alive[r] THEN @ \o evs ELSE @]
    /\ chan' = [chan EXCEPT ![r] = IF rx_alive[r] THEN @ \o evs ELSE @]

\* A faulty send that filters duplicates: an event equal to the one sent
\* last is dropped.
Send_Dedup(r, evs) ==
    LET repeat == /\ evs # << >>
                  /\ emitted[r] # << >>
                  /\ evs[1] = emitted[r][Len(emitted[r])]
        out == IF repeat THEN Tail(evs) ELSE evs
    IN /\ emitted' = [emitted EXCEPT ![r] = @ \o out]
       /\ chan' = [chan EXCEPT ![r] = IF rx_alive[r] THEN @ \o out ELSE @]

\* A faulty send through one channel shared by all runs: the events reach
\* whichever Receiver is alive.
Send_Shared(r, evs) ==
    /\ emitted' = [emitted EXCEPT ![r] = @ \o evs]
    /\ chan' = [x \in Runs |-> IF rx_alive[x] THEN chan[x] \o evs ELSE chan[x]]

\* tx.send(e) for each e of evs: queued while the Receiver lives, else the
\* send returns Err, which `let _ =` discards.
Send(r, evs) ==
    /\ emitted' = [emitted EXCEPT ![r] = @ \o evs]
    /\ chan' = [chan EXCEPT ![r] = IF rx_alive[r] THEN @ \o evs ELSE @]

\* A faulty loop iteration: the result of tx.send is unwrapped, so a send to
\* a dropped Receiver panics the worker thread, which stops reading.
WorkerStep_Unwrap(r, item) ==
    /\ app = "running"
    /\ worker[r] = "reading"
    /\ Send(r, LoopEvents(kind[r], item))
    /\ reveal' \in LoopReveals(kind[r], item)
    /\ line_result' = item
    /\ nread' = [nread EXCEPT ![r] = @ + 1]
    /\ worker' = IF ~rx_alive[r] /\ LoopEvents(kind[r], item) # << >>
                 THEN [worker EXCEPT ![r] = "panicked"]
                 ELSE worker
    /\ UNCHANGED << app, pc, ui_vars, nruns, kind, rx_alive, received, stream,
                    target_os >>

\* One iteration of the worker's loop on the item the reader returned.
WorkerStep(r, item) ==
    /\ app = "running"
    /\ worker[r] = "reading"
    /\ Send(r, LoopEvents(kind[r], item))
    /\ reveal' \in LoopReveals(kind[r], item)
    /\ line_result' = item
    /\ nread' = [nread EXCEPT ![r] = @ + 1]
    /\ UNCHANGED << app, pc, ui_vars, nruns, kind, worker, rx_alive, received,
                    stream, target_os >>

\* One iteration of the worker's loop: the child printed `item`.
WorkerRead(r, item) ==
    /\ TotalRead < MaxLines
    /\ WorkerStep(r, item)

\* reader.lines() returned None: the loop and the thread end, tx is dropped.
WorkerEnd(r) ==
    /\ app = "running"
    /\ worker[r] = "reading"
    /\ worker' = [worker EXCEPT ![r] = "done"]
    /\ UNCHANGED << app, pc, ui_vars, nruns, kind, chan, rx_alive, emitted,
                    received, line_result, nread, stream,
                    target_os >>
    /\ NoSpawn

\* ------------------------------------------------- update(): the poll
\* format!("{:.0}", 100 * n / d): rounded to the nearest integer, ties to even.
RoundPercent(n, d) ==
    LET q == (100 * n) \div d
        r == (100 * n) % d
    IN IF 2 * r > d \/ (2 * r = d /\ q % 2 = 1) THEN q + 1 ELSE q

Abs(x) == IF x < 0 THEN 0 - x ELSE x

\* (p - 1.0).abs() < 0.001 for p = n / d
NearOne(n, d) == 1000 * Abs(n - d) < d

\* The match arms of the poll loop: the UI fields after `update` is applied.
ApplyUpdate(u) ==
    IF u.type = "Progress"
    THEN /\ build_progress' = Some(u.num, u.den)
         /\ progress_message' = IF NearOne(u.num, u.den)
                                THEN Msg("finalizing...")
                                ELSE PctMsg(RoundPercent(u.num, u.den))
         /\ finished' = finished
    ELSE IF u.type = "Stage"
    THEN /\ build_progress' = build_progress
         /\ progress_message' = Msg(u.msg)
         /\ finished' = finished
    ELSE /\ build_progress' = None
         /\ progress_message' = Msg(u.msg)
         /\ finished' = TRUE

\* The frame ends (ctx.request_repaint()) and the next update() begins:
\* `if let Some(rx) = self.progress_rx.as_mut() { let mut finished = false; ...`
\* enters the poll loop when a Receiver is held and skips it otherwise.
NextFrame ==
    /\ finished' = FALSE
    /\ pc' = IF progress_rx' = 0 THEN "panel" ELSE "draining"

\* A faulty queue discipline: the newest event is returned first.
TryRecv_Lifo(q) == [update |-> q[Len(q)], rest |-> SubSeq(q, 1, Len(q) - 1)]

\* rx.try_recv() on the queue q: the event returned and the queue left.
TryRecv(q) == [update |-> Head(q), rest |-> Tail(q)]

\* One iteration of `while let Ok(update) = rx.try_recv()`.
PollRecv ==
    /\ app = "running"
    /\ pc = "draining"
    /\ chan[progress_rx] # << >>
    /\ LET got == TryRecv(chan[progress_rx]) IN
         /\ chan' = [chan EXCEPT ![progress_rx] = got.rest]
         /\ received' = [received EXCEPT ![progress_rx] = Append(@, got.update)]
         /\ ApplyUpdate(got.update)
    /\ UNCHANGED << app, pc, projects, engine_location, selected_project,
                    progress_rx, nruns, kind, worker, rx_alive, emitted,
                    line_result, nread, stream,
                    target_os >>
    /\ NoSpawn

\* A faulty end of the poll: the handle is kept after a Finished event.
RxAfterPoll_Keep == progress_rx

\* progress_rx after the loop: `if finished { self.progress_rx = None; }`
RxAfterPoll == IF finished THEN 0 ELSE progress_rx

\* Dropping the Receiver of run r (r = 0: nothing to drop) frees its queue.
DropRx(r) ==
    /\ rx_alive' = [x \in Runs |-> IF x = r THEN FALSE ELSE rx_alive[x]]
    /\ chan' = [x \in Runs |-> IF x = r THEN << >> ELSE chan[x]]

\* A faulty poll that waits for the worker: with a blocking rx.recv() the
\* loop ends only on Disconnected, once the worker has dropped its Sender.
PollEnd_Blocking ==
    /\ app = "running"
    /\ pc = "draining"
    /\ chan[progress_rx] = << >>
    /\ worker[progress_rx] = "done"
    /\ progress_rx' = RxAfterPoll
    /\ DropRx(IF progress_rx' = 0 THEN progress_rx ELSE 0)
    /\ pc' = "panel"
    /\ UNCHANGED << app, projects, engine_location, selected_project,
                    build_progress, progress_message, finished, nruns, kind,
                    worker, emitted, received, line_result, nread, stream,
                    target_os >>
    /\ NoSpawn

\* try_recv returned Err (Empty or Disconnected): the loop ends.
PollEnd ==
    /\ app = "running"
    /\ pc = "draining"
    /\ chan[progress_rx] = << >>
    /\ progress_rx' = RxAfterPoll
    /\ DropRx(IF progress_rx' = 0 THEN progress_rx ELSE 0)
    /\ pc' = "panel"
    /\ UNCHANGED << app, projects, engine_location, selected_project,
                    build_progress, progress_message, finished, nruns, kind,
                    worker, emitted, received, line_result, nread, stream,
                    target_os >>
    /\ NoSpawn

\* ------------------------------------------- update(): the two panels
\* `let running = self.build_progress.is_some();`
running == build_progress.some

\* selected_project.map(|i| projects[i].engine_version == "From Source").unwrap_or(false)
package_condition ==
    IF selected_project = 0 THEN FALSE
    ELSE projects[selected_project] = "From Source"

\* "Open Engine": a UE5.sln was picked and saved.
OpenEngine ==
    /\ app = "running"
    /\ pc = "panel"
    /\ engine_location' = TRUE
    /\ UNCHANGED << app, projects, selected_project, build_progress,
                    progress_message, progress_rx, run_vars >>
    /\ NextFrame
    /\ NoSpawn

\* A project's radio button is chosen.
SelectProject(i) ==
    /\ app = "running"
    /\ pc = "panel"
    /\ selected_project' = i
    /\ UNCHANGED << app, projects, engine_location, build_progress,
                    progress_message, progress_rx, run_vars >>
    /\ NextFrame
    /\ NoSpawn

\* create_build_command / create_package_command with a child that spawned:
\* a new channel, a new worker thread, and the caller's three assignments
\* (progress_rx = Some(rx), build_progress = Some(0.0), progress_message).
Launched(k, text) ==
    LET r == nruns + 1 IN
    /\ nruns' = r
    /\ kind' = [kind EXCEPT ![r] = k]
    /\ worker' = [worker EXCEPT ![r] = "reading"]
    /\ rx_alive' = [x \in Runs |-> IF x = r THEN TRUE
                                   ELSE IF x = progress_rx THEN FALSE
                                   ELSE rx_alive[x]]
    /\ chan' = [x \in Runs |-> IF x = progress_rx THEN << >> ELSE chan[x]]
    /\ progress_rx' = r
    /\ build_progress' = Some(0, 1)
    /\ progress_message' = Msg(text)
    /\ UNCHANGED << app, projects, engine_location, selected_project,
                    emitted, received, line_result, nread, stream,
                    target_os >>

\* spawn() returned Err: .expect("Failed to execute ... command") panics in
\* update(), on the UI thread; the channel made at the top is dropped.
SpawnFailed(k) ==
    LET r == nruns + 1 IN
    /\ nruns' = r
    /\ kind' = [kind EXCEPT ![r] = k]
    /\ worker' = [worker EXCEPT ![r] = "spawn_failed"]
    /\ app' = "panicked"
    /\ UNCHANGED << projects, engine_location, selected_project, build_progress,
                    progress_message, progress_rx, chan, rx_alive, emitted,
                    received, line_result, nread, stream,
                    target_os >>

\* The body of a clicked button: launch when an engine and a project are
\* set, else only an eprintln!.
Clicked(k, text) ==
    IF engine_location /\ selected_project # 0
    THEN /\ nruns < MaxRuns
         /\ \/ Launched(k, text)
            \/ SpawnFailed(k)
    ELSE UNCHANGED << app, projects, engine_location, selected_project,
                      build_progress, progress_message, progress_rx, run_vars >>

\* Whether the Build button is enabled: add_enabled(!running, ...)
BuildEnabled == ~running

\* Whether the Package button is enabled: add_enabled(!running && package_condition, ...)
PackageEnabled == ~running /\ package_condition

ClickBuild ==
    /\ app = "running"
    /\ pc = "panel"
    /\ BuildEnabled
    /\ Clicked("build", "Build started...")
    /\ NextFrame
    /\ NoSpawn

ClickPackage ==
    /\ app = "running"
    /\ pc = "panel"
    /\ PackageEnabled
    /\ Clicked("package", "Packaging started...")
    /\ NextFrame
    /\ NoSpawn

\* A frame in which nothing is clicked.
NoClick ==
    /\ app = "running"
    /\ pc = "panel"
    /\ UNCHANGED << app, projects, engine_location, selected_project,
                    build_progress, progress_message, progress_rx, run_vars >>
    /\ NextFrame
    /\ NoSpawn

\* ------------------------------------------------------ specification
\* BuildApp::default(), with what storage loaded.
\* BuildApp::default() in a binary compiled for target `os`.
InitOn(os) ==
    /\ app = "running"
    /\ projects = << "From Source", "5.3" >>
    /\ engine_location \in BOOLEAN
    /\ selected_project = 0
    /\ build_progress = None
    /\ progress_message = Msg("Idle")
    /\ progress_rx = 0
    /\ pc = "panel"
    /\ finished = FALSE
    /\ nruns = 0
    /\ kind = [r \in Runs |-> "none"]
    /\ worker = [r \in Runs |-> "unborn"]
    /\ chan = [r \in Runs |-> << >>]
    /\ rx_alive = [r \in Runs |-> FALSE]
    /\ emitted = [r \in Runs |-> << >>]
    /\ received = [r \in Runs |-> << >>]
    /\ line_result = NoLine
    /\ nread = [r \in Runs |-> 0]
    /\ stream = << >>
    /\ target_os = os
    /\ reveal = NoReveal

\* The program as built for the target whose command interpreter both
\* create_*_command functions launch (`Command::new("cmd")` with "/C").
Init == InitOn("windows")

Next ==
    \/ PollRecv
    \/ PollEnd
    \/ OpenEngine
    \/ \E i \in DOMAIN projects : SelectProject(i)
    \/ ClickBuild
    \/ ClickPackage
    \/ NoClick
    \/ \E r \in Runs, item \in Items : WorkerRead(r, item)
    \/ \E r \in Runs : WorkerEnd(r)

Spec == Init /\ [][Next]_vars

\* ------------------------------------------ the program on any target
\* The same program compiled for any of its targets.
TargetInit == \E os \in TargetOs : InitOn(os)

TargetSpec == TargetInit /\ [][Next]_vars

\* ------------------------------------- two workers on the same output
\* Two workers of the same kind, each with its own channel, are fed the
\* same finite output; each reads at its own pace, and the consumer of each
\* channel receives, or drops its Receiver, whenever it likes.
DetRuns == {1, 2}

Streams == UNION { [1..n -> Items] : n \in 0..MaxStream }

DetInit ==
    /\ app = "running"
    /\ projects = << "From Source", "5.3" >>
    /\ engine_location = TRUE
    /\ selected_project = 1
    /\ build_progress = None
    /\ progress_message = Msg("Idle")
    /\ progress_rx = 0
    /\ pc = "panel"
    /\ finished = FALSE
    /\ nruns = 2
    /\ \E k \in {"build", "package"} :
          kind = [r \in Runs |-> IF r \in DetRuns THEN k ELSE "none"]
    /\ worker = [r \in Runs |-> IF r \in DetRuns THEN "reading" ELSE "unborn"]
    /\ chan = [r \in Runs |-> << >>]
    /\ rx_alive = [r \in Runs |-> r \in DetRuns]
    /\ emitted = [r \in Runs |-> << >>]
    /\ received = [r \in Runs |-> << >>]
    /\ line_result = NoLine
    /\ nread = [r \in Runs |-> 0]
    /\ stream \in Streams
    /\ target_os = "windows"
    /\ reveal = NoReveal

\* Worker r runs its loop on the next item of the output.
DetRead(r) ==
    /\ nread[r] < Len(stream)
    /\ WorkerStep(r, stream[nread[r] + 1])

\* Worker r finds the end of the output.
DetEnd(r) ==
    /\ nread[r] = Len(stream)
    /\ WorkerEnd(r)

\* The consumer of r's channel receives one event.
DetRecv(r) ==
    /\ rx_alive[r]
    /\ chan[r] # << >>
    /\ LET got == TryRecv(chan[r]) IN
         /\ chan' = [chan EXCEPT ![r] = got.rest]
         /\ received' = [received EXCEPT ![r] = Append(@, got.update)]
    /\ UNCHANGED << app, pc, ui_vars, nruns, kind, worker, rx_alive, emitted,
                    line_result, nread, stream,
                    target_os >>
    /\ NoSpawn

\* The consumer of r's channel drops its Receiver.
DetDrop(r) ==
    /\ rx_alive[r]
    /\ DropRx(r)
    /\ UNCHANGED << app, pc, ui_vars, nruns, kind, worker, emitted, received,
                    line_result, nread, stream,
                    target_os >>
    /\ NoSpawn

DetNext ==
    \/ \E r \in DetRuns : DetRead(r)
    \/ \E r \in DetRuns : DetEnd(r)
    \/ \E r \in DetRuns : DetRecv(r)
    \/ \E r \in DetRuns : DetDrop(r)

DetSpec == DetInit /\ [][DetNext]_vars

\* ------------------------------------------------------------- claims
Last(q) == q[Len(q)]
IsPrefix(p, q) == Len(p) <= Len(q) /\ SubSeq(q, 1, Len(p)) = p

\* Worker r has just run one iteration of its loop.
ReadStep(r) == nread'[r] = nread[r] + 1

\* C1: once a worker has emitted a Finished event for a run it emits no
\* further event for that run: a Finished event is the last one emitted.
C1_CompletedIsTerminal ==
    \A r \in Runs : \A i \in 1..(Len(emitted[r]) - 1) :
        emitted[r][i].type # "Finished"

\* A terminal event that reports a failure: a Finished that is not one of
\* the two success summaries.
IsFailure(e) ==
    e.type = "Finished" /\ e.msg \notin {"Build finished", "Package finished"}

\* C2: a run whose stream has ended without the worker having reported
\* success has had a terminal failure event emitted for it.
C2_FailureAtEndOfStream ==
    \A r \in Runs :
        (worker[r] = "done" /\ \A i \in DOMAIN emitted[r] : emitted[r][i].type # "Finished")
            => \E i \in DOMAIN emitted[r] : IsFailure(emitted[r][i])

\* C3: when the child of the latest run has closed its output, every event
\* has been taken from the queue and the poll of a frame is over, the UI is
\* idle again (nothing can change build_progress from there on).
C3_IdleWhenStreamClosed ==
    (/\ app = "running"
     /\ nruns > 0
     /\ worker[nruns] = "done"
     /\ chan[nruns] = << >>
     /\ pc = "panel")
        => ~running

\* C4: at the end of a poll that drained a Finished event the handle is
\* dropped, the UI is not busy and the message is the Finished summary.
C4_IdleAfterFinishedTick ==
    (app = "running" /\ pc = "panel" /\ finished)
        => /\ progress_rx = 0
           /\ ~running
           /\ progress_message =
                Msg(IF kind[nruns] = "build" THEN "Build finished" ELSE "Package finished")

\* C5: every Progress event emitted carries a fraction in [0.0, 1.0].
C5_FractionInUnitRange ==
    \A r \in Runs : \A i \in DOMAIN emitted[r] :
        emitted[r][i].type = "Progress"
            => 0 <= emitted[r][i].num /\ emitted[r][i].num <= emitted[r][i].den

\* C6: while the UI holds a run's handle, what it has received followed by
\* what is still queued is exactly what the worker emitted, in order; and
\* what it has received is always a prefix of what the worker emitted.
C6_FifoDelivery ==
    \A r \in Runs :
        /\ rx_alive[r] => received[r] \o chan[r] = emitted[r]
        /\ IsPrefix(received[r], emitted[r])

\* C6 witness: two different events received in order over the polls while a
\* third is still queued behind them.
C6_Witness ==
    \E r \in Runs :
        /\ rx_alive[r]
        /\ Len(received[r]) >= 2
        /\ received[r][1] # received[r][2]
        /\ chan[r] # << >>
        /\ received[r][2] # chan[r][1]

\* C7: where the buttons are evaluated a held handle disables both of them,
\* and progress_rx is replaced by a new run's handle only when none is held.
C7_OneInvocationAtATime ==
    /\ [](pc = "panel" /\ progress_rx # 0 => ~BuildEnabled /\ ~PackageEnabled)
    /\ [][(progress_rx' # progress_rx /\ progress_rx' # 0) => progress_rx = 0]_vars

\* C7 witness: a second run's handle is held, taken after the first run's
\* handle was dropped, and the buttons are being evaluated.
C7_Witness ==
    /\ pc = "panel"
    /\ progress_rx = 2
    /\ ~rx_alive[1]
    /\ received[1] # << >>
    /\ running

\* C8: a launch whose child failed to start leaves the caller running, and
\* no event is ever queued for it.
C8_LaunchErrorReturned ==
    \A r \in Runs :
        worker[r] = "spawn_failed"
            => app = "running" /\ emitted[r] = << >> /\ chan[r] = << >>

\* C9: a worker that reads an error from the stream stops reading and emits
\* a terminal event in that same step.
C9_ReadErrorEndsRun ==
    [][\A r \in Runs :
          (ReadStep(r) /\ line_result'.err)
              => /\ worker'[r] = "done"
                 /\ Len(emitted'[r]) = Len(emitted[r]) + 1
                 /\ Last(emitted'[r]).type = "Finished"]_vars

\* Whether the event e is a Progress of fraction c / t.
IsProgressOf(e, c, t) == e.type = "Progress" /\ e.num * t = c * e.den

\* The counters of a line that have total > 0, in order.
PositiveCounters(line) == SelectSeq(line.counters, LAMBDA c : c.total > 0)

\* C10 as stated: in a build run, a line without the success marker that
\* has some counter with total > 0 yields exactly one event, the Progress of
\* the first counter with total > 0.
C10_FirstPositiveCounter ==
    [][\A r \in Runs :
          (/\ ReadStep(r)
           /\ kind[r] = "build"
           /\ ~line_result'.err
           /\ ~line_result'.success
           /\ PositiveCounters(line_result') # << >>)
              => /\ Len(emitted'[r]) = Len(emitted[r]) + 1
                 /\ SubSeq(emitted'[r], 1, Len(emitted[r])) = emitted[r]
                 /\ LET c == Head(PositiveCounters(line_result')) IN
                      IsProgressOf(Last(emitted'[r]), c.current, c.total)]_vars

\* C10 amended: in a build run, a line without the success marker whose
\* first counter has total > 0 yields exactly one event, the Progress of
\* that first counter.
C10_FirstCounter ==
    [][\A r \in Runs :
          (/\ ReadStep(r)
           /\ kind[r] = "build"
           /\ ~line_result'.err
           /\ ~line_result'.success
           /\ line_result'.counters # << >>
           /\ Head(line_result'.counters).total > 0)
              => /\ Len(emitted'[r]) = Len(emitted[r]) + 1
                 /\ SubSeq(emitted'[r], 1, Len(emitted[r])) = emitted[r]
                 /\ LET c == Head(line_result'.counters) IN
                      IsProgressOf(Last(emitted'[r]), c.current, c.total)]_vars

\* C10 witness: a build worker has read the line "[1/4]" and its last event
\* is a Progress of one quarter.
C10_Witness ==
    \E r \in Runs :
        /\ kind[r] = "build"
        /\ nread[r] > 0
        /\ ~line_result.err
        /\ line_result.counters = << Ctr(1, 4) >>
        /\ ~line_result.success
        /\ emitted[r] # << >>
        /\ IsProgressOf(Last(emitted[r]), 1, 4)

\* Worker r's step sent exactly the one event e.
SentOne(r, e) == emitted'[r] = Append(emitted[r], e)

\* Worker r's step sent nothing.
SentNone(r) == emitted'[r] = emitted[r]

\* The NN% tokens of a line whose digits parse, in order.
ParsedPercents(line) == SelectSeq(line.percents, LAMBDA t : t.ascii)

\* C11 as stated: in a package run, a line without stage banner and without
\* the success marker that has some NN% token yields exactly one event, the
\* Progress of NN / 100 for the first such token.
C11_FirstPercentToken ==
    [][\A r \in Runs :
          (/\ ReadStep(r)
           /\ kind[r] = "package"
           /\ ~line_result'.err
           /\ line_result'.banners = {}
           /\ ~line_result'.success
           /\ ParsedPercents(line_result') # << >>)
              => /\ Len(emitted'[r]) = Len(emitted[r]) + 1
                 /\ SubSeq(emitted'[r], 1, Len(emitted[r])) = emitted[r]
                 /\ IsProgressOf(Last(emitted'[r]),
                                 Head(ParsedPercents(line_result')).digits, 100)]_vars

\* C11 amended: in a package run, a line without stage banner and without
\* the success marker whose first match of (\d+)% is made of ASCII digits
\* yields exactly one event, the Progress of NN / 100 for that first match.
C11_FirstPercentMatch ==
    [][\A r \in Runs :
          (/\ ReadStep(r)
           /\ kind[r] = "package"
           /\ ~line_result'.err
           /\ line_result'.banners = {}
           /\ ~line_result'.success
           /\ line_result'.percents # << >>
           /\ Head(line_result'.percents).ascii)
              => /\ Len(emitted'[r]) = Len(emitted[r]) + 1
                 /\ SubSeq(emitted'[r], 1, Len(emitted[r])) = emitted[r]
                 /\ IsProgressOf(Last(emitted'[r]),
                                 Head(line_result'.percents).digits, 100)]_vars

\* C11 witness: a package worker has read the line "67%" and its last event
\* is a Progress of 0.67.
C11_Witness ==
    \E r \in Runs :
        /\ kind[r] = "package"
        /\ nread[r] > 0
        /\ line_result = Line({}, FALSE, << >>, << Pct(67) >>)
        /\ emitted[r] # << >>
        /\ IsProgressOf(Last(emitted[r]), 67, 100)

\* C12 as stated: in a build run, a line whose bracket counter has total = 0
\* yields no event at all, and the worker goes on reading.
C12_ZeroTotalNoEvent ==
    [][\A r \in Runs :
          (/\ ReadStep(r)
           /\ kind[r] = "build"
           /\ ~line_result'.err
           /\ line_result'.counters # << >>
           /\ Head(line_result'.counters).total = 0)
              => SentNone(r) /\ worker'[r] = "reading"]_vars

\* C12 amended: in a build run, a line without the success marker whose
\* bracket counter has total = 0 yields no event at all, and the worker goes
\* on reading.
C12_ZeroTotalGuard ==
    [][\A r \in Runs :
          (/\ ReadStep(r)
           /\ kind[r] = "build"
           /\ ~line_result'.err
           /\ ~line_result'.success
           /\ line_result'.counters # << >>
           /\ Head(line_result'.counters).total = 0)
              => SentNone(r) /\ worker'[r] = "reading"]_vars

\* C12 witness: the only worker, a build worker, has read a line starting
\* with "[0/0]" as its first line, has sent nothing and is still reading.
C12_Witness ==
    /\ nruns = 1
    /\ kind[1] = "build"
    /\ nread[1] = 1
    /\ ~line_result.success
    /\ line_result.counters # << >>
    /\ Head(line_result.counters) = Ctr(0, 0)
    /\ emitted[1] = << >>
    /\ worker[1] = "reading"

\* C13: in a package run, a line that contains a stage banner yields exactly
\* one event, the Stage carrying the label of the banner that comes first in
\* the table among those in the line, whatever else the line contains.
C13_StageBannerFirstMatch ==
    [][\A r \in Runs :
          (/\ ReadStep(r)
           /\ kind[r] = "package"
           /\ ~line_result'.err
           /\ line_result'.banners # {})
              => \E i \in line_result'.banners :
                    /\ \A j \in line_result'.banners : i <= j
                    /\ SentOne(r, Stage(StageTable[i].label))]_vars

\* C13 witness: the only worker, a package worker, has read as its first
\* line one holding the build-started and cook-started banners, a percent
\* token and the success marker, and has sent Stage("Build started") alone.
C13_Witness ==
    /\ nruns = 1
    /\ kind[1] = "package"
    /\ nread[1] = 1
    /\ line_result.banners = {BuildStarted, CookStarted}
    /\ line_result.success
    /\ line_result.percents # << >>
    /\ emitted[1] = << Stage("Build started") >>

\* C14: a worker whose Receiver has been dropped is never stopped by that:
\* it can take the next item or the end of the stream, each iteration leaves
\* it reading with nothing queued and no panic, and it leaves its loop only
\* at the end of the stream.
C14_WorkerOutlivesReceiver ==
    /\ [](\A r \in Runs :
            (app = "running" /\ worker[r] = "reading" /\ ~rx_alive[r])
                => /\ ENABLED WorkerEnd(r)
                   /\ TotalRead < MaxLines
                        => \A item \in Items : ENABLED WorkerRead(r, item))
    /\ [][\A r \in Runs :
            (ReadStep(r) /\ ~rx_alive[r])
                => /\ worker'[r] = "reading"
                   /\ chan'[r] = << >>
                   /\ app' = app
                   /\ received' = received]_vars
    /\ [][\A r \in Runs :
            (worker[r] = "reading" /\ worker'[r] # "reading")
                => worker'[r] = "done" /\ nread' = nread]_vars

\* C14 witness: a worker whose Receiver was dropped after Finished went on
\* to send an event nobody received and then ended at the end of the stream.
C14_Witness ==
    \E r \in Runs :
        /\ ~rx_alive[r]
        /\ worker[r] = "done"
        /\ received[r] # << >>
        /\ Last(received[r]).type = "Finished"
        /\ Len(emitted[r]) > Len(received[r])
        /\ chan[r] = << >>

C16_SuccessBeforeNumeric ==
    [][\A r \in Runs :
          (/\ ReadStep(r)
           /\ ~line_result'.err
           /\ line_result'.success
           /\ line_result'.banners = {}
           /\ \/ kind[r] = "build" /\ line_result'.counters # << >>
              \/ kind[r] = "package" /\ line_result'.percents # << >>)
              => SentOne(r, Finished(IF kind[r] = "build"
                                     THEN "Build finished"
                                     ELSE "Package finished"))]_vars

\* C16 witness: the only worker, a build worker, has read the line
\* "[1/4] 67% BUILD SUCCESSFUL" first and has sent Finished alone.
C16_Witness ==
    /\ nruns = 1
    /\ kind[1] = "build"
    /\ nread[1] = 1
    /\ line_result = Line({}, TRUE, << Ctr(1, 4) >>, << Pct(67) >>)
    /\ emitted[1] = << Finished("Build finished") >>

\* Worker r's step sent no Progress event.
SentNoProgress(r) ==
    \A i \in (Len(emitted[r]) + 1)..Len(emitted'[r]) :
        emitted'[r][i].type # "Progress"

\* C17: a build worker sends no Progress for a line without bracket counter
\* (such as one with an NN% token only), and a package worker sends no
\* Progress for a line without NN% token (such as one with a counter only).
C17_OneRecognizerPerRun ==
    [][\A r \in Runs :
          (/\ ReadStep(r)
           /\ ~line_result'.err
           /\ \/ kind[r] = "build" /\ line_result'.counters = << >>
              \/ kind[r] = "package" /\ line_result'.percents = << >>)
              => SentNoProgress(r)]_vars

\* C17 witness: the first run, a build worker, read two lines and sent no
\* Progress, only Finished; the second, a package worker, then read "[1/4]"
\* as its first line and sent nothing.
C17_Witness ==
    /\ nruns = 2
    /\ kind[1] = "build"
    /\ kind[2] = "package"
    /\ nread[2] = 1
    /\ line_result = Line({}, FALSE, << Ctr(1, 4) >>, << >>)
    /\ emitted[2] = << >>
    /\ \E i \in DOMAIN emitted[1] : emitted[1][i].type = "Finished"
    /\ \A i \in DOMAIN emitted[1] : emitted[1][i].type # "Progress"
    /\ nread[1] = 2

\* A line none of the recognizers of a run of kind k matches: for a build
\* run no success marker and no bracket counter; for a package run no stage
\* banner, no success marker, and no NN% token or a first one whose digits
\* do not parse.
NoMatch(k, line) ==
    IF k = "build"
    THEN ~line.success /\ line.counters = << >>
    ELSE /\ line.banners = {}
         /\ ~line.success
         /\ line.percents = << >> \/ ~Head(line.percents).ascii

\* C18: a worker that reads a line none of its recognizers matches sends
\* nothing, stays in its loop, and changes nothing but its place in the
\* stream.
C18_UnmatchedLineIsSkipped ==
    [][\A r \in Runs :
          (ReadStep(r) /\ ~line_result'.err /\ NoMatch(kind[r], line_result'))
              => /\ SentNone(r)
                 /\ worker'[r] = "reading"
                 /\ UNCHANGED << app, pc, ui_vars, nruns, kind, worker, chan,
                                 rx_alive, emitted, received, stream >>]_vars

\* C18 witness: the only worker, a package worker, has read as its first
\* line one whose first percent token has digits that do not parse, has sent
\* nothing and is still reading.
C18_Witness ==
    /\ nruns = 1
    /\ kind[1] = "package"
    /\ nread[1] = 1
    /\ line_result.percents # << >>
    /\ ~Head(line_result.percents).ascii
    /\ emitted[1] = << >>
    /\ chan[1] = << >>
    /\ worker[1] = "reading"

\* A line for which a run of kind k sends an event.
Recognized(k, line) ==
    IF k = "build"
    THEN \/ line.success
         \/ line.counters # << >> /\ Head(line.counters).total > 0
    ELSE \/ line.banners # {}
         \/ line.success
         \/ line.percents # << >> /\ Head(line.percents).ascii

\* Worker r has sent no Finished event.
NoTerminalSent(r) == \A i \in 1..Len(emitted[r]) : emitted[r][i].type # "Finished"

\* The item read last was read by worker r.
LastReadBy(r) == nread[r] > 0 /\ \A x \in Runs \ {r} : nread[x] = 0

\* C19: a worker that has sent no terminal event and reads the recognized
\* line it read just before sends once more the event it sent last, and as
\* long as a spawned worker has sent no terminal event the UI holds its
\* Receiver and every event it sent is either received or still queued, in
\* order.
C19_NoDeduplication ==
    /\ [][\A r \in Runs :
            (/\ ReadStep(r)
             /\ LastReadBy(r)
             /\ NoTerminalSent(r)
             /\ line_result' = line_result
             /\ ~line_result.err
             /\ Recognized(kind[r], line_result))
                => emitted'[r] = Append(emitted[r], Last(emitted[r]))]_vars
    /\ [](\A r \in Runs :
            (worker[r] \in {"reading", "done"} /\ NoTerminalSent(r))
                => /\ app = "running"
                   /\ progress_rx = r
                   /\ rx_alive[r]
                   /\ received[r] \o chan[r] = emitted[r])

\* C19 witness: the first run, a build, read "[1/4]" three times in a row
\* and the UI has received three identical Progress events.
C19_Witness ==
    /\ nruns = 1
    /\ kind[1] = "build"
    /\ nread[1] = 3
    /\ line_result = Line({}, FALSE, << Ctr(1, 4) >>, << >>)
    /\ received[1] = << Progress(1, 4), Progress(1, 4), Progress(1, 4) >>

\* C20: while a tick is in its poll loop either a receive or the end of the
\* loop can be taken, whatever the worker does; the loop ends only on an
\* empty queue; a loop that ends without having consumed Finished leaves
\* the progress fields and the handle as they were; and a worker's step
\* receives nothing and removes nothing from any queue.
C20_PollNeverWaits ==
    /\ []((app = "running" /\ pc = "draining") => ENABLED (PollRecv \/ PollEnd))
    /\ [][(pc = "draining" /\ pc' = "panel") => chan[progress_rx] = << >>]_vars
    /\ [][(pc = "draining" /\ pc' = "panel" /\ ~finished)
            => UNCHANGED << build_progress, progress_message, progress_rx,
                            projects, engine_location, selected_project,
                            chan, rx_alive >>]_vars
    /\ [][(nread' # nread \/ worker' # worker)
            => /\ received' = received
               /\ \A x \in Runs : IsPrefix(chan[x], chan'[x])]_vars

\* C20 witness: a tick has consumed everything the worker sent and returned
\* to the panels while the worker is still reading.
C20_Witness ==
    /\ pc = "panel"
    /\ progress_rx = 1
    /\ worker[1] = "reading"
    /\ chan[1] = << >>
    /\ emitted[1] # << >>
    /\ received[1] = emitted[1]
    /\ finished = FALSE

\* C21: a loop iteration spawns a file-browser command only when it is a
\* package worker's and its line takes the BUILD SUCCESSFUL branch; such an
\* iteration sends exactly Finished("Package finished") and goes on reading
\* whether the spawn returned Ok or Err; and no step other than a loop
\* iteration spawns one.
C21_RevealOnlyOnPackageSuccess ==
    /\ [][\A r \in Runs :
            ReadStep(r) =>
               LET line == line_result'
                   marked == /\ ~line.err
                             /\ kind[r] = "package"
                             /\ line.banners = {}
                             /\ line.success
               IN /\ reveal'.program # "none" => marked
                  /\ marked => /\ SentOne(r, Finished("Package finished"))
                               /\ worker'[r] = "reading"
                               /\ app' = "running"]_vars
    /\ [][(\A r \in Runs : ~ReadStep(r)) => reveal' = NoReveal]_vars

\* C21 witness: on macOS a package worker read the success marker, the
\* spawn of `open` failed, and Finished("Package finished") was sent and
\* is queued for the UI.
C21_Witness ==
    /\ target_os = "macos"
    /\ nruns = 1
    /\ kind[1] = "package"
    /\ line_result = Line({}, TRUE, << >>, << >>)
    /\ reveal = [program |-> "open", ok |-> FALSE]
    /\ emitted[1] = << Finished("Package finished") >>
    /\ chan[1] = emitted[1]

\* C22: what the UI has received through a run's handle is a prefix of what
\* that run's worker sent; at most the handle the UI holds is alive and the
\* queue of every other run is empty; a loop iteration of worker r touches
\* no queue but r's and no UI field; and the progress fields change only by
\* a launch or by applying the head of the held handle's queue.
C22_RunIsolation ==
    /\ [](\A r \in Runs :
            /\ IsPrefix(received[r], emitted[r])
            /\ rx_alive[r] => progress_rx = r
            /\ ~rx_alive[r] => chan[r] = << >>)
    /\ [][\A r \in Runs :
            ReadStep(r) =>
               /\ \A x \in Runs \ {r} : chan'[x] = chan[x] /\ emitted'[x] = emitted[x]
               /\ progress_rx # r => chan' = chan
               /\ UNCHANGED << ui_vars, received >>]_vars
    /\ [][(build_progress' # build_progress \/ progress_message' # progress_message)
            => \/ nruns' = nruns + 1
               \/ /\ progress_rx # 0
                  /\ chan[progress_rx] # << >>
                  /\ received' = [received EXCEPT ![progress_rx] =
                                     Append(@, Head(chan[progress_rx]))]]_vars

\* C22 witness: the first run, a build, finished and its worker is still
\* reading; the second run, a package, showed 67% when the first worker read
\* "[1/4]" and sent a Progress event, which reached nobody: the UI still
\* shows the second run's 67%.
C22_Witness ==
    /\ nruns = 2
    /\ kind[1] = "build"
    /\ kind[2] = "package"
    /\ progress_rx = 2
    /\ worker[1] = "reading"
    /\ line_result = Line({}, FALSE, << Ctr(1, 4) >>, << >>)
    /\ emitted[1] = << Finished("Build finished"), Progress(1, 4) >>
    /\ received[1] = << Finished("Build finished") >>
    /\ emitted[2] = << Progress(67, 100) >>
    /\ received[2] = emitted[2]
    /\ build_progress = Some(67, 100)
    /\ progress_message = PctMsg(67)

====
